---- MODULE Spec2Model ----
(***************************************************************************)
(* Fair Isolation tournament: tournament_helpers.py (opening sampler, fair *)
(* match builder, shared-opening generator) and tournament_fair.py (round  *)
(* driver and aggregation).                                                *)
(*                                                                         *)
(* Three specifications share the definitions below:                       *)
(*   SpecMatch  one call of prepare_fair_match                             *)
(*   SpecSched  prepare_same_fair_matches drained by a consumer that only  *)
(*              collects the yielded lists (as tournament_fair_test does)  *)
(*   Spec       run_fair_tournament, with play_fair_round and the          *)
(*              generator it drives                                       *)
(***************************************************************************)
EXTENDS Integers, Sequences, FiniteSets

\* ---------------------------------------------------------------- bounds
\* The code plays on a 7 x 7 board (the defaults of tournament_helpers.py
\* lines 13 and 29). The rules of movement are outside the model (an opening
\* may take any blank cell), so only the number of cells matters: the model
\* plays on one row of Width cells.
Width == 3
\* The height of the model's one-row board (7 in the code); not a bound.
Height == 1
\* Largest num_matches.
MaxMatches == 2
\* Largest len(opponents) given to prepare_same_fair_matches in SpecSched.
MaxOpponents == 3
\* Largest len(cpu_agents) * len(test_agents) * num_matches of a tournament.
MaxFairMatches == 4

\* ------------------------------------------------------ python helpers
Range(s) == {s[i] : i \in DOMAIN s}

RECURSIVE SumOver(_, _)
SumOver(f, S) ==
  IF S = {} THEN 0
  ELSE LET x == CHOOSE y \in S : TRUE IN f[x] + SumOver(f, S \ {x})

\* collections.Counter: a mapping whose missing keys read as 0.
EmptyCounter == <<>>

\* Counter.__missing__: c[k] of an absent key is 0 and adds no key.
CounterGet(c, k) == IF k \in DOMAIN c THEN c[k] ELSE 0

\* A slip of c[k] += 1: the entry is set to 1 instead of being raised by 1.
CounterIncOverwrite(c, k) ==
  [x \in DOMAIN c \cup {k} |-> IF x = k THEN 1 ELSE c[x]]

\* c[k] += 1
CounterInc(c, k) ==
  [x \in DOMAIN c \cup {k} |-> IF x = k THEN CounterGet(c, k) + 1 ELSE c[x]]

\* A slip of del c[k]: the entry is kept.
CounterDelKeeps(c, k) == c

\* del c[k]: Counter.__delitem__ ignores an absent key.
CounterDel(c, k) == [x \in DOMAIN c \ {k} |-> c[x]]

\* A slip of c.update(d): dict.update, which overwrites instead of adding.
CounterUpdateOverwrite(c, d) ==
  [x \in DOMAIN c \cup DOMAIN d |-> IF x \in DOMAIN d THEN d[x] ELSE c[x]]

\* c.update(d): counts add.
CounterUpdate(c, d) ==
  [x \in DOMAIN c \cup DOMAIN d |-> CounterGet(c, x) + CounterGet(d, x)]

\* sum(c.values())
CounterSum(c) == SumOver(c, DOMAIN c)

\* -------------------------------------------- isolation.Board (external)
\* A player that has not moved yet has no location.
NotMoved == <<>>

\* The player objects the sampler registers on its scratch board: "" and "".
NoPlayer == <<"", 0>>

Cells(width, height) == (0 .. height - 1) \X (0 .. width - 1)

\* Board(player_1, player_2, width, height): empty, player_1 to move.
\* id stands for the identity of the Python object.
Board(id, player_1, player_2, width, height) ==
  [id |-> id, player_1 |-> player_1, player_2 |-> player_2,
   width |-> width, height |-> height,
   active |-> 1, blank |-> Cells(width, height),
   loc |-> <<NotMoved, NotMoved>>, move_count |-> 0]

active_player(b) == IF b.active = 1 THEN b.player_1 ELSE b.player_2

inactive_player(b) == IF b.active = 1 THEN b.player_2 ELSE b.player_1

get_blank_spaces(b) == b.blank

\* On an opening (the player to move is not on the board yet) every blank
\* cell is legal; the sampler and the builder only move players onto the board.
get_legal_moves(b) == b.blank

\* The active player moves to cell `move`; the turn passes to the other player.
apply_move(b, move) ==
  [b EXCEPT !.blank = @ \ {move},
            !.loc[b.active] = move,
            !.active = 3 - @,
            !.move_count = @ + 1]

\* The closed vocabulary of loss reasons Board.play returns.
LossReasons == {"timeout", "forfeit", "illegal move"}

\* ------------------------------------------------- tournament_helpers.py
Agent(player, name) == [player |-> player, name |-> name]

\* get_random_starting_positions(height, width): every list of two moves
\* random.choice can produce.
get_random_starting_positions(height, width) ==
  LET b == Board(0, NoPlayer, NoPlayer, width, height)
  IN  UNION {{<<m1, m2>> : m2 \in get_legal_moves(apply_move(b, m1))}
             : m1 \in get_legal_moves(b)}

RECURSIVE ApplyAll(_, _)
\* for move in opening_moves: board.apply_move(move)
ApplyAll(b, moves) ==
  IF Len(moves) = 0 THEN b ELSE ApplyAll(apply_move(b, Head(moves)), Tail(moves))

\* A slip of the builder: the board where player2 moves first comes first.
prepare_boards_opponent_first(id, player1, player2, width, height) ==
  <<Board(id, player2, player1, width, height),
    Board(id + 1, player1, player2, width, height)>>

\* A slip of the builder: both boards register player1 as the first mover.
prepare_boards_same_order(id, player1, player2, width, height) ==
  <<Board(id, player1, player2, width, height),
    Board(id + 1, player1, player2, width, height)>>

\* boards = [Board(player1, player2, ...), Board(player2, player1, ...)]
prepare_boards(id, player1, player2, width, height) ==
  <<Board(id, player1, player2, width, height),
    Board(id + 1, player2, player1, width, height)>>

\* A slip of the builder: a supplied opening is ignored and the sampler is
\* always called.
opening_choices_resampled(opening_moves, width, height) ==
  {[moves |-> o, sampled |-> 1] : o \in get_random_starting_positions(height, width)}

\* `if not opening_moves:` None and [] are both falsy, and both are modelled
\* by the empty sequence. sampled counts the calls of the sampler.
opening_choices(opening_moves, width, height) ==
  IF Len(opening_moves) = 0
  THEN {[moves |-> o, sampled |-> 1]
        : o \in get_random_starting_positions(height, width)}
  ELSE {[moves |-> opening_moves, sampled |-> 0]}

\* A slip of the builder: the moves are applied to the first board only.
apply_openings_first_only(boards, moves) ==
  <<ApplyAll(boards[1], moves), boards[2]>>

\* for move in opening_moves: for board in boards: board.apply_move(move)
apply_openings(boards, moves) ==
  [i \in DOMAIN boards |-> ApplyAll(boards[i], moves)]

\* prepare_fair_match(player1, player2, opening_moves, width, height): the
\* set of its possible returns (boards, opening_moves); the two Board
\* objects get the identities id and id + 1.
prepare_fair_match(id, player1, player2, opening_moves, width, height) ==
  {[boards |-> apply_openings(prepare_boards(id, player1, player2, width, height),
                              c.moves),
    opening_moves |-> c.moves,
    sampled |-> c.sampled]
   : c \in opening_choices(opening_moves, width, height)}

\* The generator object prepare_same_fair_matches(agent, opponents,
\* num_matches) returns: its body has not started to run. i counts the
\* opponents whose games have been yielded.
prepare_same_fair_matches(agent, opponents, n) ==
  [pc |-> "created", agent |-> agent, opponents |-> opponents,
   num_matches |-> n, same_opening_moves |-> <<>>, i |-> 0]

\* A slip of the generator: the openings are sampled again for every opponent.
gen_openings_per_opponent(g) ==
  {[same_opening_moves |-> som, sampled |-> g.num_matches]
   : som \in [1 .. g.num_matches -> get_random_starting_positions(Height, Width)]}

\* same_opening_moves = [get_random_starting_positions() for _ in
\* range(num_matches)]: run once, when the body starts; a later resumption
\* finds the list as it was left.
gen_openings(g) ==
  IF g.pc = "created"
  THEN {[same_opening_moves |-> som, sampled |-> g.num_matches]
        : som \in [1 .. g.num_matches -> get_random_starting_positions(Height, Width)]}
  ELSE {[same_opening_moves |-> g.same_opening_moves, sampled |-> 0]}

RECURSIVE build_games(_, _, _, _)
\* games = []; for opening_moves in same_opening_moves:
\*   boards, _ = prepare_fair_match(agent.player, opponent.player, opening_moves)
\*   games.extend(boards)
build_games(id, agent, opponent, openings) ==
  IF Len(openings) = 0
  THEN {[games |-> <<>>, sampled |-> 0]}
  ELSE UNION {{[games |-> r.boards \o rest.games,
                sampled |-> r.sampled + rest.sampled]
               : rest \in build_games(id + 2, agent, opponent, Tail(openings))}
              : r \in prepare_fair_match(id, agent.player, opponent.player,
                                         Head(openings), Width, Height)}

\* One resumption of the generator (next()), up to its next yield or to its
\* end: the set of its outcomes. yielded is FALSE on StopIteration;
\* assert_ok is the assertion len(games) == 2 * num_matches.
gen_next(g, id) ==
  UNION {IF g.i < Len(g.opponents)
         THEN {[gen |-> [g EXCEPT !.pc = "suspended",
                                  !.same_opening_moves = o.same_opening_moves,
                                  !.i = g.i + 1],
                yielded |-> TRUE,
                games |-> b.games,
                assert_ok |-> (Len(b.games) = 2 * g.num_matches),
                sampled |-> o.sampled + b.sampled]
               : b \in build_games(id, g.agent, g.opponents[g.i + 1],
                                   o.same_opening_moves)}
         ELSE {[gen |-> [g EXCEPT !.pc = "done",
                                  !.same_opening_moves = o.same_opening_moves],
                yielded |-> FALSE,
                games |-> <<>>,
                assert_ok |-> TRUE,
                sampled |-> o.sampled]}
         : o \in gen_openings(g)}

\* format_header(test_agents): the names of the columns.
format_header(agents) == [i \in DOMAIN agents |-> agents[i].name]

\* format_row_results(test_agents, win_counts, num_games_each): per test
\* agent the pair (num_wins, num_losses) the row shows.
format_row_results(agents, counts, num_games_each) ==
  [i \in DOMAIN agents |->
     <<CounterGet(counts, agents[i].player),
       num_games_each - CounterGet(counts, agents[i].player)>>]

\* format_loss_results(reasons): the messages printed, each with its count.
format_loss_results(reasons) ==
  (IF "timeout" \in DOMAIN reasons THEN <<<<"timeout", reasons["timeout"]>>>> ELSE <<>>)
  \o (IF "forfeit" \in DOMAIN reasons THEN <<<<"forfeit", reasons["forfeit"]>>>> ELSE <<>>)

\* format_win_rates(test_agents, all_test_agent_wins, total_num_games): per
\* test agent the rate num_wins / total_num_games, kept as the pair
\* (numerator, denominator).
format_win_rates(agents, wins, total_num_games) ==
  [i \in DOMAIN agents |-> <<CounterGet(wins, agents[i].player), total_num_games>>]

\* make_dividing_line(test_agents): the width of the line.
make_dividing_line(agents) == 9 + 13 + 13 * Len(agents)

\* ------------------------------------------------------------- state
VARIABLES
  \* run_fair_tournament
  cpu_agents, test_agents, num_matches, pc, idx,
  all_test_agent_wins, all_loss_reasons, win_counts, loss_reason_counts,
  output,
  \* the generator prepare_same_fair_matches and the list it last yielded
  gen, games, game_idx, next_id,
  \* history: sampler calls, boards built and played in the round, games
  \* won and ended, errors raised by Board.play
  sampler_calls, built, played, won_done, won_round, ended_done, ended_round,
  errors,
  \* the collecting consumer of SpecSched
  game_sequences,
  \* the call of prepare_fair_match of SpecMatch
  match_args, match_result

tvars == <<cpu_agents, test_agents, num_matches, idx,
           all_test_agent_wins, all_loss_reasons, win_counts,
           loss_reason_counts, output, game_idx, built, played,
           won_done, won_round, ended_done, ended_round, errors>>
gvars == <<gen, games, next_id, sampler_calls>>
svars == <<game_sequences>>
mvars == <<match_args, match_result>>
vars == <<pc, tvars, gvars, svars, mvars>>

NoGen == [pc |-> "none"]

TournamentIdle ==
  /\ cpu_agents = <<>> /\ test_agents = <<>> /\ num_matches = 0 /\ idx = 0
  /\ all_test_agent_wins = EmptyCounter /\ all_loss_reasons = EmptyCounter
  /\ win_counts = EmptyCounter /\ loss_reason_counts = EmptyCounter
  /\ output = <<>> /\ game_idx = 0 /\ built = <<>> /\ played = <<>>
  /\ won_done = EmptyCounter /\ won_round = EmptyCounter
  /\ ended_done = EmptyCounter /\ ended_round = EmptyCounter
  /\ errors = 0

GenIdle == gen = NoGen /\ games = <<>> /\ next_id = 1 /\ sampler_calls = 0

SchedIdle == game_sequences = <<>>

MatchIdle == match_args = <<>> /\ match_result = <<>>

\* --------------------------------------------------------- SpecMatch
MatchPlayers == {<<"Player", 1>>, <<"Player", 2>>, <<"Player", 3>>}

\* opening_moves as a caller may give it: None, [] or two distinct cells.
SuppliedOpenings ==
  {<<>>} \cup ({<<m1, m2>> : m1, m2 \in Cells(Width, Height)}
              \ {<<m, m>> : m \in Cells(Width, Height)})

MatchInit ==
  /\ pc = "match_call"
  /\ \E p1 \in MatchPlayers, p2 \in MatchPlayers, o \in SuppliedOpenings :
       match_args = [player1 |-> p1, player2 |-> p2, opening_moves |-> o]
  /\ match_result = <<>>
  /\ TournamentIdle /\ GenIdle /\ SchedIdle

\* boards, opening_moves = prepare_fair_match(player1, player2, opening_moves)
CallPrepareFairMatch ==
  /\ pc = "match_call"
  /\ \E r \in prepare_fair_match(next_id, match_args.player1, match_args.player2,
                                 match_args.opening_moves, Width, Height) :
       /\ match_result' = r
       /\ sampler_calls' = sampler_calls + r.sampled
  /\ next_id' = next_id + 2
  /\ pc' = "match_returned"
  /\ UNCHANGED <<tvars, svars, match_args, gen, games>>

MatchNext == CallPrepareFairMatch

SpecMatch == MatchInit /\ [][MatchNext]_vars

\* --------------------------------------------------------- SpecSched
\* Competitors are distinct objects: the i-th test agent, the i-th cpu agent.
TestAgent(i) == Agent(<<"test", i>>, "AB_Improved")

CpuAgent(i) == Agent(<<"cpu", i>>, "CPU")

TestAgents(k) == [i \in 1 .. k |-> TestAgent(i)]

CpuAgents(k) == [i \in 1 .. k |-> CpuAgent(i)]

SchedInit ==
  /\ pc = "sched_iter"
  /\ \E a \in {CpuAgent(1), TestAgent(1)}, k \in 0 .. MaxOpponents,
        n \in 0 .. MaxMatches :
       gen = prepare_same_fair_matches(a, TestAgents(k), n)
  /\ games = <<>> /\ next_id = 1 /\ sampler_calls = 0
  /\ game_sequences = <<>>
  /\ TournamentIdle /\ MatchIdle

\* for games in prepare_same_fair_matches(...): game_sequences.append(games)
SchedNext ==
  /\ pc = "sched_iter"
  /\ \E r \in gen_next(gen, next_id) :
       /\ gen' = r.gen
       /\ games' = r.games
       /\ next_id' = next_id + Len(r.games)
       /\ sampler_calls' = sampler_calls + r.sampled
       /\ IF ~r.assert_ok
          THEN pc' = "assertion_error" /\ UNCHANGED game_sequences
          ELSE IF r.yielded
          THEN pc' = "sched_iter" /\ game_sequences' = Append(game_sequences, r.games)
          ELSE pc' = "sched_done" /\ UNCHANGED game_sequences
  /\ UNCHANGED <<tvars, mvars>>

SpecSched == SchedInit /\ [][SchedNext]_vars

\* -------------------------------------------------------------- Spec
\* History bookkeeping, independent of the Counter operations above.
Val(f, k) == IF k \in DOMAIN f THEN f[k] ELSE 0

Bump(f, k) == [x \in DOMAIN f \cup {k} |-> Val(f, x) + (IF x = k THEN 1 ELSE 0)]

Plus(f, g) == [x \in DOMAIN f \cup DOMAIN g |-> Val(f, x) + Val(g, x)]

Total(f) == SumOver(f, DOMAIN f)

\* What the history keeps of a board when it is built.
BuiltEntry(b) ==
  [id |-> b.id, player_1 |-> b.player_1, player_2 |-> b.player_2,
   loc |-> b.loc]

\* cpu_agents and test_agents are non-empty lists of distinct objects and
\* num_matches is positive, as main() sets them up.
Init ==
  /\ pc = "begin"
  /\ \E r \in 1 .. MaxFairMatches, k \in 1 .. MaxFairMatches, n \in 1 .. MaxMatches :
       /\ r * k * n <= MaxFairMatches
       /\ cpu_agents = CpuAgents(r)
       /\ test_agents = TestAgents(k)
       /\ num_matches = n
  /\ idx = 0
  /\ all_test_agent_wins = EmptyCounter /\ all_loss_reasons = EmptyCounter
  /\ win_counts = EmptyCounter /\ loss_reason_counts = EmptyCounter
  /\ output = <<>> /\ game_idx = 0 /\ built = <<>> /\ played = <<>>
  /\ won_done = EmptyCounter /\ won_round = EmptyCounter
  /\ ended_done = EmptyCounter /\ ended_round = EmptyCounter
  /\ errors = 0
  /\ GenIdle /\ SchedIdle /\ MatchIdle

\* run_fair_tournament, up to the loop over cpu_agents.
Begin ==
  /\ pc = "begin"
  /\ all_test_agent_wins' = EmptyCounter
  /\ all_loss_reasons' = EmptyCounter
  /\ output' = Append(output, [kind |-> "header", round |-> 0,
                               data |-> format_header(test_agents)])
  /\ pc' = "loop"
  /\ UNCHANGED <<cpu_agents, test_agents, num_matches, idx, win_counts,
                 loss_reason_counts, game_idx, built, played, won_done,
                 won_round, ended_done, ended_round, errors, gvars, svars, mvars>>

\* The next cpu_agent: its name is printed and play_fair_round is entered,
\* up to the creation of the generator.
StartRound ==
  /\ pc = "loop"
  /\ idx < Len(cpu_agents)
  /\ idx' = idx + 1
  /\ output' = Append(output, [kind |-> "name", round |-> idx + 1,
                               data |-> <<cpu_agents[idx + 1].name>>])
  /\ win_counts' = EmptyCounter
  /\ loss_reason_counts' = EmptyCounter
  /\ gen' = prepare_same_fair_matches(cpu_agents[idx + 1], test_agents, num_matches)
  /\ games' = <<>>
  /\ game_idx' = 0
  /\ built' = <<>> /\ played' = <<>>
  /\ won_round' = EmptyCounter /\ ended_round' = EmptyCounter
  /\ pc' = "next_games"
  /\ UNCHANGED <<cpu_agents, test_agents, num_matches, all_test_agent_wins,
                 all_loss_reasons, won_done, ended_done, errors, next_id,
                 sampler_calls, svars, mvars>>

\* `for games in prepare_same_fair_matches(...)`: the generator is resumed.
\* When it ends, play_fair_round checks its assertion and returns
\* (win_counts, loss_reason_counts); its generator and its loop variables go
\* out of scope, and with them the history of the round's boards.
NextGames ==
  /\ pc = "next_games"
  /\ \E r \in gen_next(gen, next_id) :
       /\ next_id' = next_id + Len(r.games)
       /\ sampler_calls' = sampler_calls + r.sampled
       /\ IF ~r.assert_ok
          THEN /\ pc' = "assert_92"
               /\ gen' = r.gen
               /\ UNCHANGED <<games, game_idx, built, played>>
          ELSE IF r.yielded
          THEN /\ gen' = r.gen
               /\ games' = r.games
               /\ game_idx' = 1
               /\ built' = built \o [i \in DOMAIN r.games |-> BuiltEntry(r.games[i])]
               /\ pc' = IF Len(r.games) = 0 THEN "next_games" ELSE "play"
               /\ UNCHANGED played
          ELSE IF CounterSum(win_counts) # 2 * num_matches * Len(test_agents)
          THEN /\ pc' = "assert_65"
               /\ gen' = r.gen
               /\ UNCHANGED <<games, game_idx, built, played>>
          ELSE /\ pc' = "round_done"
               /\ gen' = NoGen
               /\ games' = <<>>
               /\ game_idx' = 0
               /\ built' = <<>>
               /\ played' = <<>>
  /\ UNCHANGED <<cpu_agents, test_agents, num_matches, idx, all_test_agent_wins,
                 all_loss_reasons, win_counts, loss_reason_counts, output,
                 won_done, won_round, ended_done, ended_round, errors,
                 svars, mvars>>

\* Where control is after game.play() raises: nothing catches the error.
play_error_pc_swallowed == "play"

play_error_pc == "aborted"

\* win_counts[winner] += 1
tally_win(counts, winner) == CounterInc(counts, winner)

\* A slip of the tally: an ordinary loss is not counted as a loss reason.
tally_loss_reason_abnormal_only(counts, loss_reason) ==
  IF loss_reason = "illegal move" THEN counts ELSE CounterInc(counts, loss_reason)

\* loss_reason_counts[loss_reason] += 1
tally_loss_reason(counts, loss_reason) == CounterInc(counts, loss_reason)

\* winner, _, loss_reason = game.play(); the two counters are raised.
PlayGame ==
  /\ pc = "play"
  /\ LET game == games[game_idx] IN
     \E winner \in {game.player_1, game.player_2}, loss_reason \in LossReasons :
       /\ win_counts' = tally_win(win_counts, winner)
       /\ loss_reason_counts' = tally_loss_reason(loss_reason_counts, loss_reason)
       /\ played' = Append(played, game.id)
       /\ won_round' = Bump(won_round, winner)
       /\ ended_round' = Bump(ended_round, loss_reason)
  /\ game_idx' = game_idx + 1
  /\ pc' = IF game_idx = Len(games) THEN "next_games" ELSE "play"
  /\ UNCHANGED <<cpu_agents, test_agents, num_matches, idx, all_test_agent_wins,
                 all_loss_reasons, output, built, won_done, ended_done, errors,
                 gvars, svars, mvars>>

\* game.play() raises: the error leaves play_fair_round and
\* run_fair_tournament, whose counters, generator and loop variables go out
\* of scope; the tournament-wide totals are kept as they were, never returned.
PlayRaises ==
  /\ pc = "play"
  /\ errors' = errors + 1
  /\ pc' = play_error_pc
  /\ IF play_error_pc = "aborted"
     THEN /\ win_counts' = EmptyCounter
          /\ loss_reason_counts' = EmptyCounter
          /\ gen' = NoGen
          /\ games' = <<>>
          /\ game_idx' = 0
          /\ built' = <<>>
          /\ played' = <<>>
     ELSE UNCHANGED <<win_counts, loss_reason_counts, gen, games, game_idx,
                      built, played>>
  /\ UNCHANGED <<cpu_agents, test_agents, num_matches, idx, all_test_agent_wins,
                 all_loss_reasons, output, won_done, won_round, ended_done,
                 ended_round, next_id, sampler_calls, svars, mvars>>

\* The rest of the loop body: the row is printed and the round is merged.
MergeRound ==
  /\ pc = "round_done"
  /\ output' = Append(output, [kind |-> "row", round |-> idx,
                               data |-> format_row_results(test_agents, win_counts,
                                                           2 * num_matches)])
  /\ all_loss_reasons' = CounterUpdate(all_loss_reasons, loss_reason_counts)
  /\ win_counts' = CounterDel(win_counts, cpu_agents[idx].player)
  /\ all_test_agent_wins' = CounterUpdate(all_test_agent_wins, win_counts')
  /\ won_done' = Plus(won_done, won_round)
  /\ ended_done' = Plus(ended_done, ended_round)
  /\ won_round' = EmptyCounter /\ ended_round' = EmptyCounter
  /\ pc' = "loop"
  /\ UNCHANGED <<cpu_agents, test_agents, num_matches, idx, loss_reason_counts,
                 game_idx, built, played, errors, gvars, svars, mvars>>

\* After the loop: the dividing line, the two assertions, the summary.
Finish ==
  /\ pc = "loop"
  /\ idx = Len(cpu_agents)
  /\ LET total_num_games_per_test_agent == 2 * num_matches * Len(cpu_agents)
         line == [kind |-> "line", round |-> 0,
                  data |-> <<make_dividing_line(test_agents)>>]
     IN  IF Cardinality(DOMAIN all_test_agent_wins) # Len(test_agents)
         THEN pc' = "assert_104" /\ output' = Append(output, line)
         ELSE IF CounterSum(all_test_agent_wins)
                   > total_num_games_per_test_agent * Len(test_agents)
         THEN pc' = "assert_105" /\ output' = Append(output, line)
         ELSE IF total_num_games_per_test_agent = 0 /\ Len(test_agents) > 0
         THEN pc' = "zero_division" /\ output' = Append(output, line)
         ELSE /\ pc' = "returned"
              /\ output' = output \o
                   <<line,
                     [kind |-> "rates", round |-> 0,
                      data |-> format_win_rates(test_agents, all_test_agent_wins,
                                                total_num_games_per_test_agent)],
                     [kind |-> "loss", round |-> 0,
                      data |-> format_loss_results(all_loss_reasons)]>>
  /\ UNCHANGED <<cpu_agents, test_agents, num_matches, idx, all_test_agent_wins,
                 all_loss_reasons, win_counts, loss_reason_counts, game_idx,
                 built, played, won_done, won_round, ended_done, ended_round,
                 errors, gvars, svars, mvars>>

Next ==
  \/ Begin
  \/ StartRound
  \/ NextGames
  \/ PlayGame
  \/ PlayRaises
  \/ MergeRound
  \/ Finish

Spec == Init /\ [][Next]_vars

\* ------------------------------------------------------------ claims
AllBoards == UNION {Range(game_sequences[s]) : s \in DOMAIN game_sequences}

PlayersOf(b) == {active_player(b), inactive_player(b)}

\* C1: prepare_fair_match returns exactly two boards; once the openings are
\* applied both have the same blank cells, each board's active player is the
\* other board's inactive player, player1 is to move on boards[0] and
\* player2 is to move on boards[1].
C1_FairMatch ==
  pc = "match_returned" =>
    LET boards == match_result.boards
        moves == match_result.opening_moves
    IN  /\ Len(boards) = 2
        /\ Len(moves) = 2
        /\ get_blank_spaces(boards[1]) = get_blank_spaces(boards[2])
        /\ get_blank_spaces(boards[1]) = Cells(Width, Height) \ Range(moves)
        /\ active_player(boards[1]) = inactive_player(boards[2])
        /\ inactive_player(boards[1]) = active_player(boards[2])
        /\ active_player(boards[1]) = match_args.player1
        /\ active_player(boards[2]) = match_args.player2

\* C1 happens: a match of two different players, with sampled openings, has
\* been built.
C1_Witness ==
  /\ pc = "match_returned"
  /\ match_args.player1 # match_args.player2
  /\ match_args.opening_moves = <<>>
  /\ sampler_calls = 1

\* C2: the generator yields exactly len(opponents) lists, each of
\* 2 * num_matches boards; at every index the boards of two different lists
\* have the same blank cells and different unordered pairs of players.
C2_SharedOpenings ==
  /\ pc # "assertion_error"
  /\ Len(game_sequences) <= Len(gen.opponents)
  /\ pc = "sched_done" => Len(game_sequences) = Len(gen.opponents)
  /\ \A s \in DOMAIN game_sequences :
       Len(game_sequences[s]) = 2 * gen.num_matches
  /\ \A s, t \in DOMAIN game_sequences :
       s # t =>
         \A i \in 1 .. 2 * gen.num_matches :
           /\ get_blank_spaces(game_sequences[s][i])
                = get_blank_spaces(game_sequences[t][i])
           /\ PlayersOf(game_sequences[s][i]) # PlayersOf(game_sequences[t][i])

\* C2 happens: the generator has ended after yielding the lists of three
\* opponents, each of two fair matches whose openings leave different cells
\* blank.
C2_Witness ==
  /\ pc = "sched_done"
  /\ Len(game_sequences) = 3
  /\ gen.num_matches = 2
  /\ get_blank_spaces(game_sequences[1][1]) # get_blank_spaces(game_sequences[1][3])

\* C5: the sampler is called exactly num_matches times, all when the
\* generator starts and never by prepare_fair_match; for every opponent the
\* boards 2j and 2j + 1 carry exactly the j-th sampled pair, so all lists
\* together use at most num_matches opening pairs.
C5_SampledOnce ==
  /\ sampler_calls = IF gen.pc = "created" THEN 0 ELSE gen.num_matches
  /\ gen.pc = "created" => game_sequences = <<>>
  /\ gen.pc # "created" => Len(gen.same_opening_moves) = gen.num_matches
  /\ \A s \in DOMAIN game_sequences :
       \A j \in 1 .. gen.num_matches :
         \A i \in {2 * j - 1, 2 * j} :
           LET b == game_sequences[s][i]
               pair == gen.same_opening_moves[j]
           IN  /\ b.loc = pair
               /\ b.move_count = 2
               /\ get_blank_spaces(b) = Cells(Width, Height) \ Range(pair)
  /\ Cardinality({b.loc : b \in AllBoards}) <= gen.num_matches

\* C5 happens: two different pairs were sampled and the lists of two
\* opponents were built from them.
C5_Witness ==
  /\ Len(game_sequences) >= 2
  /\ gen.num_matches = 2
  /\ gen.same_opening_moves[1] # gen.same_opening_moves[2]
  /\ sampler_calls = 2

\* ------------------------------------------------- claims on the tournament
TestPlayers == {test_agents[i].player : i \in DOMAIN test_agents}

CpuPlayers == {cpu_agents[i].player : i \in DOMAIN cpu_agents}

\* The games of a whole round, and of a whole tournament.
RoundGames == 2 * num_matches * Len(test_agents)

TournamentGames == RoundGames * Len(cpu_agents)

\* The games the anchors won in the rounds merged so far.
AnchorWins == SumOver([p \in CpuPlayers |-> Val(won_done, p)], CpuPlayers)

Kinds(out) == {out[i].kind : i \in DOMAIN out}

\* C3: when play_fair_round returns, the values of win_counts (the anchor's
\* wins included) sum to 2 * num_matches * len(test_agents), whoever won
\* each game; its final assertion never fails.
C3_CountConservation ==
  /\ pc # "assert_65"
  /\ pc = "round_done" =>
       /\ CounterSum(win_counts) = RoundGames
       /\ Total(won_round) = RoundGames

\* C3 happens: a round of two test agents and two fair matches each has
\* returned, and the anchor and both test agents won games in it.
C3_Witness ==
  /\ pc = "round_done"
  /\ Len(test_agents) = 2
  /\ num_matches = 2
  /\ DOMAIN win_counts = TestPlayers \cup {cpu_agents[idx].player}

\* C4: no competitor's tournament-wide win count exceeds
\* 2 * num_matches * len(cpu_agents), after any round and at the end, so every
\* reported win rate is at most 1 and the counts sum to at most
\* 2 * num_matches * len(cpu_agents) * len(test_agents).
C4_WinRateBound ==
  /\ pc # "assert_105"
  /\ \A p \in DOMAIN all_test_agent_wins :
       all_test_agent_wins[p] <= 2 * num_matches * Len(cpu_agents)
  /\ CounterSum(all_test_agent_wins) <= TournamentGames
  /\ \A i \in DOMAIN output :
       output[i].kind = "rates" =>
         \A j \in DOMAIN output[i].data :
           /\ output[i].data[j][2] = 2 * num_matches * Len(cpu_agents)
           /\ output[i].data[j][1] <= output[i].data[j][2]

\* C4 happens: a tournament of two rounds has reported its win rates, and one
\* test agent won every game it played while another did not.
C4_Witness ==
  /\ pc = "returned"
  /\ Len(cpu_agents) = 2
  /\ Len(test_agents) = 2
  /\ \E i \in DOMAIN output :
       /\ output[i].kind = "rates"
       /\ output[i].data[1][1] = output[i].data[1][2]
       /\ output[i].data[2][1] < output[i].data[2][2]

\* C6: once game.play() has raised, the tournament has aborted: nothing is
\* played or printed afterwards, the failing round has no result row and is
\* not merged into the tournament-wide totals, and no summary is printed.
C6_AbortOnError ==
  /\ [](errors > 0 =>
          /\ pc = "aborted"
          /\ errors = 1
          /\ \A i \in DOMAIN output :
               ~(output[i].kind = "row" /\ output[i].round = idx)
          /\ Cardinality({i \in DOMAIN output : output[i].kind = "row"}) = idx - 1
          /\ Kinds(output) \cap {"line", "rates", "loss"} = {}
          /\ DOMAIN all_test_agent_wins \subseteq TestPlayers
          /\ \A p \in TestPlayers :
               CounterGet(all_test_agent_wins, p) = Val(won_done, p)
          /\ \A r \in LossReasons :
               CounterGet(all_loss_reasons, r) = Val(ended_done, r)
          /\ Total(ended_done) = RoundGames * (idx - 1))
  /\ [][errors > 0 => UNCHANGED vars]_vars

\* C6 happens: a game of the second round raised after games of that round
\* had been won and tallied.
C6_Witness ==
  /\ errors = 1
  /\ pc = "aborted"
  /\ idx = 2
  /\ Total(won_round) > 0
  /\ CounterSum(all_test_agent_wins) > 0

\* C7: when all rounds have been played, all_test_agent_wins has exactly one
\* entry per test agent, so the assertion
\* len(all_test_agent_wins) == len(test_agents) never fails.
C7_OneEntryPerTestAgent ==
  /\ pc # "assert_104"
  /\ (pc = "loop" /\ idx = Len(cpu_agents)) =>
       Cardinality(DOMAIN all_test_agent_wins) = Len(test_agents)

\* C8: within a round the boards are played one at a time in the order they
\* were built (opponent order, then opening order, then anchor first before
\* opponent first); an opponent's boards are built only when every board of
\* the opponents before it has been played; every board is a fresh object,
\* played once, and all are played when the round ends.
C8_BuildPlayOrder ==
  /\ Len(played) <= Len(built)
  /\ \A i \in DOMAIN played : played[i] = built[i].id
  /\ \A i, j \in DOMAIN built : i < j => built[i].id < built[j].id
  /\ gen.pc \in {"none", "created"} => built = <<>>
  /\ gen.pc \in {"suspended", "done"} =>
       /\ Len(built) = 2 * num_matches * gen.i
       /\ pc = "play" =>
            Len(played) = 2 * num_matches * (gen.i - 1) + game_idx - 1
       /\ pc = "next_games" => Len(played) = Len(built)
       /\ (pc = "next_games" /\ gen.i = Len(test_agents)) =>
            Len(played) = RoundGames
       /\ \A i \in DOMAIN games :
            games[i].id = built[2 * num_matches * (gen.i - 1) + i].id
       /\ \A p \in DOMAIN built :
            LET o == ((p - 1) \div (2 * num_matches)) + 1
                j == (((p - 1) % (2 * num_matches)) \div 2) + 1
                anchor == cpu_agents[idx].player
                opponent == test_agents[o].player
            IN  /\ built[p].loc = gen.same_opening_moves[j]
                /\ built[p].player_1 = IF p % 2 = 1 THEN anchor ELSE opponent
                /\ built[p].player_2 = IF p % 2 = 1 THEN opponent ELSE anchor

\* C8 happens: the third board of the second opponent is about to be played,
\* after all four boards of the first opponent and two of the second.
C8_Witness ==
  /\ pc = "play"
  /\ num_matches = 2
  /\ gen.i = 2
  /\ game_idx = 3
  /\ Len(played) = 6
  /\ Len(built) = 8

\* C9: after any number of completed rounds, all_test_agent_wins[t] is the
\* number of games test agent t won in those rounds, the anchors' wins are
\* not in all_test_agent_wins, and all_loss_reasons[r] is the number of games
\* of those rounds that ended with reason r, the anchors' wins included.
C9_AdditiveMerge ==
  /\ DOMAIN all_test_agent_wins \subseteq TestPlayers
  /\ \A p \in TestPlayers :
       CounterGet(all_test_agent_wins, p) = Val(won_done, p)
  /\ \A r \in LossReasons :
       CounterGet(all_loss_reasons, r) = Val(ended_done, r)
  /\ DOMAIN all_loss_reasons \subseteq LossReasons
  /\ Total(ended_done) = Total(won_done)
  /\ pc \in {"loop", "returned", "assert_104"} => Total(ended_done) = RoundGames * idx

\* C9 happens: two rounds are merged, a test agent has won games in both of
\* them and an anchor has won a game too.
C9_Witness ==
  /\ pc = "loop"
  /\ idx = 2
  /\ Len(test_agents) = 2
  /\ CounterGet(all_test_agent_wins, test_agents[1].player) = 3
  /\ CounterGet(all_test_agent_wins, test_agents[2].player) = 1
  /\ AnchorWins > 0

\* C10: during a round the loss reasons and the wins tallied both equal the
\* number of games played so far in the round; when run_fair_tournament
\* returns, all_loss_reasons sums to
\* 2 * num_matches * len(test_agents) * len(cpu_agents) and
\* all_test_agent_wins to that total less the games the anchors won.
C10_LossReasonConservation ==
  /\ pc \in {"play", "next_games"} =>
       /\ CounterSum(loss_reason_counts) = Len(played)
       /\ CounterSum(win_counts) = Len(played)
  /\ pc = "round_done" =>
       /\ CounterSum(loss_reason_counts) = RoundGames
       /\ CounterSum(win_counts) = RoundGames
  /\ pc = "returned" =>
       /\ CounterSum(all_loss_reasons) = TournamentGames
       /\ CounterSum(all_test_agent_wins) = TournamentGames - AnchorWins

\* C10 happens: a tournament of two rounds has returned, with games won by
\* the anchors and games that ended for each of two reasons.
C10_Witness ==
  /\ pc = "returned"
  /\ Len(cpu_agents) = 2
  /\ AnchorWins > 0
  /\ Cardinality(DOMAIN all_loss_reasons) >= 2

====
